---- MODULE Spec2Model ----
(***************************************************************************)
(* A model of the go-tableau client (package tableau): the request         *)
(* builder, the response handler, the sign-in exchange done by NewClient,  *)
(* the resource services and the query options.                            *)
(*                                                                         *)
(* Go strings are TLA+ strings.  A Go string built by concatenation is the *)
(* tuple of its parts (TLC cannot concatenate strings): it is empty iff    *)
(* every part is empty.  A response body is either a byte string that is   *)
(* not JSON (kind "bad", with its text), a body whose read failed (kind    *)
(* "unreadable"), or the JSON value the bytes spell.                       *)
(***************************************************************************)
EXTENDS Integers, Sequences, FiniteSets, TLC

VARIABLES
    hpc,        \* handleResponse: "idle" | "returned"
    hres,       \* handleResponse: the response it was called with
    hv,         \* handleResponse: the decode target before the call
    hret,       \* handleResponse: [err, v]: the error returned, the target after
    phase,      \* NewClient: "start" | "signin" | "ready" (client returned) | "failed"
    c,          \* the Client struct NewClient builds
    nerr,       \* the error NewClient returned
    sreq,       \* the sign-in request signIn built
    sres,       \* the outcome of the sign-in round trip
    tpc,        \* per caller: "idle" | "built" | "done"
    tcall,      \* per caller: the service method called and its argument
    treq,       \* per caller: the request newRequest built
    tret,       \* per caller: what the service method returned
    qpc,        \* Query's option loop: "idle" | "loop" | "encoded" | "panic"
    qopts,      \* Query's option loop: the options passed
    qi,         \* Query's option loop: how many have been applied
    qvals,      \* Query's option loop: queryOpts.URLValues
    qpath       \* Query's option loop: the path built

handleVars == <<hpc, hres, hv, hret>>
clientVars == <<phase, c, nerr, sreq, sres, tpc, tcall, treq, tret>>
queryVars == <<qpc, qopts, qi, qvals, qpath>>
vars == <<handleVars, clientVars, queryVars>>

(***************************************************************************)
(* Program constants                                                       *)
(***************************************************************************)
ErrCodeInternal == "-1"
jsonMediaType == "application/json"
libraryVersion == "v0.0.1"
\* "go-tableau/" + libraryVersion, a constant expression the compiler folds
userAgent == "go-tableau/v0.0.1"
StatusNoContent == 204
StatusBadRequest == 400

(***************************************************************************)
(* JSON values (what encoding/json reads)                                  *)
(***************************************************************************)
JNull == [k |-> "null"]
JNum == [k |-> "num"]
JStr(s) == [k |-> "str", s |-> s]
JArr(a) == [k |-> "arr", a |-> a]
JObj(o) == [k |-> "obj", o |-> o]
BadBody(raw) == [k |-> "bad", raw |-> raw]
Unreadable == [k |-> "unreadable"]

\* every object whose keys are among `keys` and whose members are in `vals`
Objs(keys, vals) == UNION {[K -> vals] : K \in SUBSET keys}

(***************************************************************************)
(* Go types and values (what encoding/json writes)                         *)
(***************************************************************************)
TString == [k |-> "string"]
TStruct(f) == [k |-> "struct", f |-> f]
TPtr(e) == [k |-> "ptr", e |-> e]
TSlice(e) == [k |-> "slice", e |-> e]

NilPtr == [isNil |-> TRUE]
Ptr(p) == [isNil |-> FALSE, p |-> p]

RECURSIVE Zero(_)
Zero(t) ==
    CASE t.k = "string" -> ""
      [] t.k = "struct" -> [f \in DOMAIN t.f |-> Zero(t.f[f])]
      [] t.k = "ptr" -> NilPtr
      [] t.k = "slice" -> <<>>

\* the types of the package
T_errorResponse ==
    TStruct([error |-> TStruct([summary |-> TString, detail |-> TString, code |-> TString])])
T_DeleteProjectRequest == TStruct([id |-> TString])
\* Project, cut to its first string fields (the others decode the same way)
T_Project == TStruct([id |-> TString, name |-> TString])
T_site == TStruct([id |-> TString, contentUrl |-> TString])
T_signInResponse ==
    TStruct([credentials |->
        TStruct([site |-> T_site, token |-> TString, estimatedTimeToExpiration |-> TString])])

(***************************************************************************)
(* encoding/json.Unmarshal                                                 *)
(***************************************************************************)
\* d.value: decode JSON value j into a Go value of type t now holding cur.
\* A JSON value of the wrong type leaves the place as it is, is remembered
\* as the error and decoding goes on (d.saveError).  A pointer is allocated
\* before its element is decoded; null sets a pointer or slice to nil and
\* leaves a string or struct alone.  Object keys are written here in the
\* one spelling the struct tags give (encoding/json also accepts other
\* letter cases of the same name).
RECURSIVE Decode(_, _, _)
Decode(j, t, cur) ==
    CASE t.k = "string" ->
            IF j.k = "str" THEN [v |-> j.s, err |-> FALSE]
            ELSE IF j.k = "null" THEN [v |-> cur, err |-> FALSE]
            ELSE [v |-> cur, err |-> TRUE]
      [] t.k = "struct" ->
            IF j.k = "obj" THEN
                LET r == [f \in DOMAIN t.f |->
                            IF f \in DOMAIN j.o
                            THEN Decode(j.o[f], t.f[f], cur[f])
                            ELSE [v |-> cur[f], err |-> FALSE]]
                IN  [v |-> [f \in DOMAIN t.f |-> r[f].v],
                     err |-> \E f \in DOMAIN t.f : r[f].err]
            ELSE IF j.k = "null" THEN [v |-> cur, err |-> FALSE]
            ELSE [v |-> cur, err |-> TRUE]
      [] t.k = "ptr" ->
            IF j.k = "null" THEN [v |-> NilPtr, err |-> FALSE]
            ELSE LET r == Decode(j, t.e, IF cur.isNil THEN Zero(t.e) ELSE cur.p)
                 IN  [v |-> Ptr(r.v), err |-> r.err]
      [] t.k = "slice" ->
            IF j.k = "arr" THEN
                LET r == [i \in 1..Len(j.a) |-> Decode(j.a[i], t.e, Zero(t.e))]
                IN  [v |-> [i \in 1..Len(j.a) |-> r[i].v],
                     err |-> \E i \in 1..Len(j.a) : r[i].err]
            ELSE IF j.k = "null" THEN [v |-> <<>>, err |-> FALSE]
            ELSE [v |-> cur, err |-> TRUE]

\* (*json.SyntaxError).Error() of checkValid on text that is not JSON
SyntaxErrorText(raw) ==
    IF raw \in {"", "{"} THEN "unexpected end of JSON input"
    ELSE "invalid character '<' looking for beginning of value"

NoErr == [kind |-> "nil"]
SyntaxError(raw) == [kind |-> "json.SyntaxError", text |-> SyntaxErrorText(raw)]
UnmarshalTypeError == [kind |-> "json.UnmarshalTypeError"]
ReadError == [kind |-> "read"]

\* json.Unmarshal(out, &x), x of type t holding cur: checkValid first, so
\* text that is not JSON writes nothing.
Unmarshal(out, t, cur) ==
    IF out.k = "bad" THEN [v |-> cur, err |-> SyntaxError(out.raw)]
    ELSE LET r == Decode(out, t, cur)
         IN  [v |-> r.v, err |-> IF r.err THEN UnmarshalTypeError ELSE NoErr]

(***************************************************************************)
(* Error, the package's typed error                                        *)
(***************************************************************************)
Error(msg, code, meta) == [kind |-> "Error", msg |-> msg, Code |-> code, Meta |-> meta]
NoMeta == [x \in {} |-> ""]

\* http.StatusText
StatusText(code) ==
    CASE code = 200 -> "OK"
      [] code = 202 -> "Accepted"
      [] code = 204 -> "No Content"
      [] code = 304 -> "Not Modified"
      [] code = 400 -> "Bad Request"
      [] code = 404 -> "Not Found"
      [] code = 500 -> "Internal Server Error"
      [] OTHER -> ""

(***************************************************************************)
(* Client.handleResponse                                                   *)
(***************************************************************************)
\* a decode target: the nil interface, or a pointer to a value of type t
NilTarget == [isNil |-> TRUE]
Target(t, val) == [isNil |-> FALSE, t |-> t, val |-> val]

malformedErrorMeta_noErr(out, jsonErr, status) ==
    [body |-> out, http_status |-> StatusText(status)]

malformedErrorMeta(out, jsonErr, status) ==
    [body |-> out, err |-> jsonErr.text, http_status |-> StatusText(status)]

isZeroErrorResponse_never(e) == FALSE

\* *errorRes == (errorResponse{})
isZeroErrorResponse(e) == e = Zero(T_errorResponse)

\* the branch of status >= 400: the error returned
errorBranch(status, out) ==
    LET r == Unmarshal(out, T_errorResponse, Zero(T_errorResponse)) IN
    IF r.err # NoErr THEN
        IF r.err.kind = "json.SyntaxError"
        THEN Error(<<"malformed error response body received">>, ErrCodeInternal,
                   malformedErrorMeta(out, r.err, status))
        ELSE r.err
    ELSE IF isZeroErrorResponse(r.v)
    THEN Error(<<"internal error, response body doesn't match error type signature">>,
               ErrCodeInternal,
               [body |-> out, http_status |-> StatusText(status)])
    ELSE Error(<<r.v.error.summary, ": ", r.v.error.detail>>, r.v.error.code, NoMeta)

skipDecode_nilOnly(status, v) == v.isNil

\* v == nil || res.StatusCode == http.StatusNoContent
skipDecode(status, v) == v.isNil \/ status = StatusNoContent

successDecode_discard(status, out, v) ==
    LET r == Unmarshal(out, v.t, v.val) IN
    IF r.err # NoErr THEN
        IF r.err.kind = "json.SyntaxError"
        THEN [err |-> Error(<<"malformed response body received">>, ErrCodeInternal,
                            [body |-> out, http_status |-> StatusText(status)]),
              v |-> v]
        ELSE [err |-> r.err, v |-> v]
    ELSE [err |-> NoErr, v |-> v]

\* json.Unmarshal(out, &v) and what follows it
successDecode(status, out, v) ==
    LET r == Unmarshal(out, v.t, v.val) IN
    IF r.err # NoErr THEN
        IF r.err.kind = "json.SyntaxError"
        THEN [err |-> Error(<<"malformed response body received">>, ErrCodeInternal,
                            [body |-> out, http_status |-> StatusText(status)]),
              v |-> Target(v.t, r.v)]
        ELSE [err |-> r.err, v |-> Target(v.t, r.v)]
    ELSE [err |-> NoErr, v |-> Target(v.t, r.v)]

handleResponse_successFirst(res, v) ==
    IF res.Body.k = "unreadable" THEN [err |-> ReadError, v |-> v]
    ELSE IF skipDecode(res.StatusCode, v) THEN [err |-> NoErr, v |-> v]
    ELSE IF res.StatusCode >= StatusBadRequest
    THEN [err |-> errorBranch(res.StatusCode, res.Body), v |-> v]
    ELSE successDecode(res.StatusCode, res.Body, v)

\* handleResponse(ctx, res, v): [err, v], the error and the target afterwards
handleResponse(res, v) ==
    IF res.Body.k = "unreadable" THEN [err |-> ReadError, v |-> v]
    ELSE IF res.StatusCode >= StatusBadRequest
    THEN [err |-> errorBranch(res.StatusCode, res.Body), v |-> v]
    ELSE IF skipDecode(res.StatusCode, v) THEN [err |-> NoErr, v |-> v]
    ELSE successDecode(res.StatusCode, res.Body, v)

(***************************************************************************)
(* Query options                                                           *)
(***************************************************************************)
Digit(d) ==
    CASE d = 0 -> "0" [] d = 1 -> "1" [] d = 2 -> "2" [] d = 3 -> "3" [] d = 4 -> "4"
      [] d = 5 -> "5" [] d = 6 -> "6" [] d = 7 -> "7" [] d = 8 -> "8" [] d = 9 -> "9"

\* strconv.Itoa: the decimal digits of n, a "-" before those of a negative n
RECURSIVE Itoa(_)
Itoa(n) ==
    IF n < 0 THEN <<"-">> \o Itoa(0 - n)
    ELSE IF n < 10 THEN <<Digit(n)>>
    ELSE Itoa(n \div 10) \o <<Digit(n % 10)>>

\* url.Values: parameter name -> list of values
NoValues == [x \in {} |-> <<>>]
\* url.Values.Set
ValuesSet(vals, key, value) ==
    [x \in DOMAIN vals \cup {key} |-> IF x = key THEN <<value>> ELSE vals[x]]

\* An option is a closure over its value; applying it gives the URLValues
\* afterwards and the error it returns.
WithPageSize_zeroToo(pageSize, vals) ==
    [vals |-> IF pageSize >= 0 THEN ValuesSet(vals, "pageSize", Itoa(pageSize)) ELSE vals,
     err |-> NoErr]

WithPageSize(pageSize, vals) ==
    [vals |-> IF pageSize > 0 THEN ValuesSet(vals, "pageSize", Itoa(pageSize)) ELSE vals,
     err |-> NoErr]

WithPageNumber(pageNumber, vals) ==
    [vals |-> IF pageNumber > 0 THEN ValuesSet(vals, "pageNumber", Itoa(pageNumber)) ELSE vals,
     err |-> NoErr]

WithFilterExpression(filterExp, vals) ==
    [vals |-> IF filterExp # "" THEN ValuesSet(vals, "filter", filterExp) ELSE vals,
     err |-> NoErr]

WithSortExpression(sortExp, vals) ==
    [vals |-> IF sortExp # "" THEN ValuesSet(vals, "sort", sortExp) ELSE vals,
     err |-> NoErr]

\* opt(queryOpts), opt a record [with, arg] standing for the closure
ApplyOption(opt, vals) ==
    CASE opt.with = "WithPageSize" -> WithPageSize(opt.arg, vals)
      [] opt.with = "WithPageNumber" -> WithPageNumber(opt.arg, vals)
      [] opt.with = "WithFilterExpression" -> WithFilterExpression(opt.arg, vals)
      [] opt.with = "WithSortExpression" -> WithSortExpression(opt.arg, vals)

\* the loop of Query over opts, from the empty url.Values: the values after
\* it and whether an option's error made it panic
RECURSIVE ApplyOptions(_, _)
ApplyOptions(opts, vals) ==
    IF opts = <<>> THEN [vals |-> vals, panic |-> FALSE]
    ELSE LET r == ApplyOption(Head(opts), vals) IN
         IF r.err # NoErr THEN [vals |-> r.vals, panic |-> TRUE]
         ELSE ApplyOptions(Tail(opts), r.vals)

\* url.Values.Encode: key=value pairs sorted by key (QueryEscape leaves the
\* letters and digits used here as they are)
ParamOrder == <<"filter", "pageNumber", "pageSize", "sort">>
RECURSIVE EncodeFrom(_, _)
EncodeFrom(vals, i) ==
    IF i > Len(ParamOrder) THEN <<>>
    ELSE (IF ParamOrder[i] \in DOMAIN vals
          THEN <<[key |-> ParamOrder[i], value |-> vals[ParamOrder[i]][1]]>>
          ELSE <<>>) \o EncodeFrom(vals, i + 1)
ValuesEncode(vals) == EncodeFrom(vals, 1)

\* the path of Query: "sites/<SiteID>/projects", then "?" and the encoded
\* values when there are any
queryPath(SiteID, vals) ==
    [parts |-> <<"sites/", SiteID, "/projects">>, query |-> ValuesEncode(vals)]

(***************************************************************************)
(* Client.newRequest                                                       *)
(***************************************************************************)
NoHeaders == [x \in {} |-> ""]
\* http.Header.Set and a Go map assignment (the keys used are canonical)
HeaderSet(h, key, value) ==
    [x \in DOMAIN h \cup {key} |-> IF x = key THEN value ELSE h[x]]

NilBody == [isNil |-> TRUE]
GoBody(json) == [isNil |-> FALSE, json |-> json]
NoRequest == [Method |-> "", URL |-> <<>>, Header |-> NoHeaders, Body |-> [k |-> "none"]]

\* a path: its pieces as fmt.Sprintf lays them out, and the encoded query
Path(parts) == [parts |-> parts, query |-> <<>>]
\* url.Parse and URL.Parse refuse text with a broken percent escape
BadText == {"%zz", ":bad"}
PathParses(path) == \A i \in 1..Len(path.parts) : path.parts[i] \notin BadText
UrlError == [kind |-> "url.Error"]
\* errors.Wrap
Wrap(err, msg) == [kind |-> "wrapped", msg |-> msg, cause |-> err]

\* for k, v := range c.headers { req.Header.Set(k, v) }
injectHeaders(h, headers) ==
    [x \in DOMAIN h \cup DOMAIN headers |-> IF x \in DOMAIN headers THEN headers[x] ELSE h[x]]

userAgentHeader_nonGetOnly(cl, method, h) ==
    IF method = "GET" THEN h ELSE HeaderSet(h, "User-Agent", cl.UserAgent)

\* req.Header.Set("User-Agent", c.UserAgent)
userAgentHeader(cl, method, h) == HeaderSet(h, "User-Agent", cl.UserAgent)

sessionAfterNewRequest_stored(cl, method) ==
    [cl EXCEPT !.headers = HeaderSet(cl.headers, "Accept", jsonMediaType)]

\* the client after newRequest: it reads c.headers and writes nothing
sessionAfterNewRequest(cl, method) == cl

\* c.newRequest(method, path, body): [req, err], and the client afterwards
newRequest(cl, method, path, body) ==
    IF ~PathParses(path)
    THEN [req |-> NoRequest, err |-> UrlError, c |-> cl]
    ELSE LET h0 == IF method = "GET" THEN NoHeaders
                   ELSE HeaderSet(NoHeaders, "Content-Type", jsonMediaType)
             h1 == HeaderSet(h0, "Accept", jsonMediaType)
             h2 == userAgentHeader(cl, method, h1)
             buf == IF method = "GET" THEN [k |-> "none"]
                    ELSE IF body.isNil THEN [k |-> "empty"]
                    ELSE body.json
         IN  [req |-> [Method |-> method,
                       URL |-> <<cl.baseURL, path>>,
                       Header |-> injectHeaders(h2, cl.headers),
                       Body |-> buf],
              err |-> NoErr,
              c |-> sessionAfterNewRequest(cl, method)]

(***************************************************************************)
(* Client.do                                                               *)
(***************************************************************************)
TransportError == [kind |-> "transport"]
\* what the round trip c.client.Do(req) gives: an error, or a response
RoundTripFails == [fail |-> TRUE]
Responds(res) == [fail |-> FALSE, res |-> res]

\* c.do(ctx, req, v)
do(req, v, outcome) ==
    IF outcome.fail THEN [err |-> TransportError, v |-> v]
    ELSE handleResponse(outcome.res, v)

(***************************************************************************)
(* NewClient and Client.signIn                                             *)
(***************************************************************************)
NoClient ==
    [UserAgent |-> "", headers |-> NoHeaders, baseURL |-> <<>>, SiteID |-> ""]

\* json encoding of signInRequest
signInRequestJSON(tokenName, tokenSecret, siteName) ==
    JObj([credentials |-> JObj([
        name |-> JStr(""), password |-> JStr(""),
        personalAccessTokenName |-> JStr(tokenName),
        personalAccessTokenSecret |-> JStr(tokenSecret),
        site |-> JObj([id |-> JStr(""), contentUrl |-> JStr(siteName)])])])

\* signIn up to the round trip: the request for auth/signin
signInBuild(cl, tokenName, tokenSecret, siteName) ==
    LET r == newRequest(cl, "POST", Path(<<"auth/signin">>),
                        GoBody(signInRequestJSON(tokenName, tokenSecret, siteName)))
    IN  IF r.err # NoErr
        THEN [req |-> r.req, err |-> Wrap(r.err, "error creating request auth/signin"), c |-> r.c]
        ELSE r

signInStore_tokenOnly(cl, resp) ==
    [cl EXCEPT !.headers = HeaderSet(cl.headers, "X-Tableau-Auth", resp.credentials.token)]

\* c.headers["X-Tableau-Auth"] = token; c.SiteID = site id
signInStore(cl, resp) ==
    [cl EXCEPT !.headers = HeaderSet(cl.headers, "X-Tableau-Auth", resp.credentials.token),
               !.SiteID = resp.credentials.site.id]

\* signIn from the round trip on: [err, c]
signInFinish(cl, outcome) ==
    LET d == do(sreq, Target(T_signInResponse, Zero(T_signInResponse)), outcome)
    IN  IF d.err # NoErr THEN [err |-> d.err, c |-> cl]
        ELSE [err |-> NoErr, c |-> signInStore(cl, d.v.val)]

(***************************************************************************)
(* projectsService and dataSourcesService                                  *)
(***************************************************************************)
T_createProjectResponse == TStruct([project |-> TPtr(T_Project)])
T_queryProjectResponse ==
    TStruct([pagination |-> TStruct([pageSize |-> TString, pageNumber |-> TString,
                                     totalAvailabe |-> TString]),
             projects |-> TStruct([project |-> TSlice(TPtr(T_Project))])])
\* DataSource, cut to its first string fields
T_DataSource == TStruct([id |-> TString, name |-> TString])
T_dataSourcesResponse == TStruct([dataSource |-> TPtr(T_DataSource)])

\* json encoding of struct{Project *CreateProjectRequest}; description is omitempty
createProjectJSON(r) ==
    JObj([project |-> JObj(
        IF r.Description = "" THEN [name |-> JStr(r.Name)]
        ELSE [name |-> JStr(r.Name), description |-> JStr(r.Description)])])
\* json encoding of struct{Project *UpdateProjectRequest}
updateProjectJSON(r) ==
    JObj([project |-> JObj(
        IF r.Description = "" THEN [id |-> JStr(r.ID), name |-> JStr(r.Name)]
        ELSE [id |-> JStr(r.ID), name |-> JStr(r.Name), description |-> JStr(r.Description)])])

\* the verb, path and body a service method passes to newRequest
serviceRequest(cl, call) ==
    CASE call.op = "Projects.Query" ->
            [method |-> "GET",
             path |-> queryPath(cl.SiteID, ApplyOptions(call.arg.opts, NoValues).vals),
             body |-> NilBody]
      [] call.op = "Projects.Create" ->
            [method |-> "POST", path |-> Path(<<"sites/", cl.SiteID, "/projects">>),
             body |-> GoBody(createProjectJSON(call.arg))]
      [] call.op = "Projects.Update" ->
            [method |-> "PUT", path |-> Path(<<"sites/", cl.SiteID, "/projects/", call.arg.ID>>),
             body |-> GoBody(updateProjectJSON(call.arg))]
      [] call.op = "Projects.Delete" ->
            [method |-> "DELETE", path |-> Path(<<"sites/", cl.SiteID, "/projects/", call.arg.ID>>),
             body |-> NilBody]
      [] call.op = "DataSources.Get" ->
            [method |-> "GET", path |-> Path(<<"sites/", cl.SiteID, "/datasources/", call.arg.ID>>),
             body |-> NilBody]
      [] call.op = "DataSources.Delete" ->
            [method |-> "DELETE",
             path |-> Path(<<"sites/", cl.SiteID, "/datasources/", call.arg.ID>>),
             body |-> NilBody]

serviceWrapMessage(op) ==
    CASE op = "Projects.Query" -> "error creating request for query projects"
      [] op = "Projects.Create" -> "error creating request for create project"
      [] op = "Projects.Update" -> "error creating request for update project"
      [] op = "Projects.Delete" -> "error creating request for delete project"
      [] op = "DataSources.Get" -> "error creating request for get datasource"
      [] op = "DataSources.Delete" -> "error creating request for deleting datasource"

\* the target a service method passes to do: &resp, resp a pointer to a
\* fresh response struct; DataSources.Delete passes nil
serviceTarget(op) ==
    CASE op = "Projects.Query" ->
            Target(TPtr(T_queryProjectResponse), Ptr(Zero(T_queryProjectResponse)))
      [] op \in {"Projects.Create", "Projects.Update", "Projects.Delete"} ->
            Target(TPtr(T_createProjectResponse), Ptr(Zero(T_createProjectResponse)))
      [] op = "DataSources.Get" ->
            Target(TPtr(T_dataSourcesResponse), Ptr(Zero(T_dataSourcesResponse)))
      [] op = "DataSources.Delete" -> NilTarget

NoResult == [panic |-> FALSE, err |-> NoErr, val |-> NilPtr]
\* what a service method returns after do: the error, or the field of the
\* response; reading a field through resp after a null body set it to nil
\* is a nil pointer dereference
serviceReturn(op, d) ==
    IF d.err # NoErr THEN [panic |-> FALSE, err |-> d.err, val |-> NilPtr]
    ELSE IF op = "DataSources.Delete" THEN NoResult
    ELSE IF d.v.val.isNil THEN [panic |-> TRUE, err |-> NoErr, val |-> NilPtr]
    ELSE CASE op = "Projects.Query" ->
                [panic |-> FALSE, err |-> NoErr, val |-> [slice |-> d.v.val.p.projects.project]]
           [] op \in {"Projects.Create", "Projects.Update", "Projects.Delete"} ->
                [panic |-> FALSE, err |-> NoErr, val |-> d.v.val.p.project]
           [] op = "DataSources.Get" ->
                [panic |-> FALSE, err |-> NoErr, val |-> d.v.val.p.dataSource]

(***************************************************************************)
(* The inputs handleResponse is checked on                                 *)
(***************************************************************************)
Statuses == {200, 202, 204, 304, 399, 400, 404, 499, 500}
Leaf == {JNull, JNum, JStr(""), JStr("a")}
BadBodies == {BadBody(""), BadBody("{"), BadBody("<html>")}
ErrInner == Objs({"summary", "detail", "code"}, Leaf)
ErrBodies == {JObj([error |-> e]) : e \in Leaf \cup {JArr(<<>>)} \cup {JObj(o) : o \in ErrInner}}
IdBodies == {JObj(o) : o \in Objs({"id", "name"}, Leaf \cup {JStr("test")})}
HandleBodies ==
    {Unreadable} \cup BadBodies \cup Leaf \cup {JArr(<<>>)} \cup ErrBodies \cup IdBodies
HandleTargets ==
    {NilTarget}
    \cup {Target(T_DeleteProjectRequest, [id |-> s]) : s \in {"", "old"}}
    \cup {Target(T_Project, [id |-> s, name |-> s]) : s \in {"", "old"}}
    \cup {Target(TPtr(T_DeleteProjectRequest), Ptr([id |-> "old"]))}
HandleResponses == [StatusCode : Statuses, Body : HandleBodies]

NoResponse == [StatusCode |-> 0, Body |-> JNull]
NoReturn == [err |-> NoErr, v |-> NilTarget]

InitHandle ==
    /\ hpc = "idle"
    /\ hres = NoResponse
    /\ hv = NilTarget
    /\ hret = NoReturn

\* a call of handleResponse, from its entry to its return
HandleResponse ==
    /\ hpc = "idle"
    /\ \E res \in HandleResponses, v \in HandleTargets :
        /\ hres' = res
        /\ hv' = v
        /\ hret' = handleResponse(res, v)
    /\ hpc' = "returned"
    /\ UNCHANGED <<clientVars, queryVars>>

\* the caller drops the response and the error
HandleDone ==
    /\ hpc = "returned"
    /\ hpc' = "idle"
    /\ hres' = NoResponse
    /\ hv' = NilTarget
    /\ hret' = NoReturn
    /\ UNCHANGED <<clientVars, queryVars>>

(***************************************************************************)
(* The option loop of projectsService.Query                                *)
(***************************************************************************)
MaxOpts == 3
OptionInts == {-1, 0, 1, 25}
OptionStrings == {"", "a", "b"}
Options ==
    {[with |-> w, arg |-> n] : w \in {"WithPageSize", "WithPageNumber"}, n \in OptionInts}
    \cup {[with |-> w, arg |-> x] :
            w \in {"WithFilterExpression", "WithSortExpression"}, x \in OptionStrings}
OptionSeqs == UNION {[1..n -> Options] : n \in 0..MaxOpts}
QuerySiteID == "s1"
NoPath == [parts |-> <<>>, query |-> <<>>]

InitQuery ==
    /\ qpc = "idle"
    /\ qopts = <<>>
    /\ qi = 0
    /\ qvals = NoValues
    /\ qpath = NoPath

\* Query is called: queryOpts starts with empty URLValues
QueryCall ==
    /\ qpc = "idle"
    /\ \E opts \in OptionSeqs : qopts' = opts
    /\ qi' = 0
    /\ qvals' = NoValues
    /\ qpath' = NoPath
    /\ qpc' = "loop"
    /\ UNCHANGED <<handleVars, clientVars>>

\* one turn of the loop: err := opt(queryOpts); if err != nil { panic(err) }
QueryApply ==
    /\ qpc = "loop"
    /\ qi < Len(qopts)
    /\ LET r == ApplyOption(qopts[qi + 1], qvals) IN
        /\ qvals' = r.vals
        /\ qpc' = IF r.err # NoErr THEN "panic" ELSE "loop"
    /\ qi' = qi + 1
    /\ UNCHANGED <<qopts, qpath, handleVars, clientVars>>

\* after the loop: the encoded values join the path
QueryEncode ==
    /\ qpc = "loop"
    /\ qi = Len(qopts)
    /\ qpath' = queryPath(QuerySiteID, qvals)
    /\ qpc' = "encoded"
    /\ UNCHANGED <<qopts, qi, qvals, handleVars, clientVars>>

\* the call is over
QueryDone ==
    /\ qpc \in {"encoded", "panic"}
    /\ qpc' = "idle"
    /\ qopts' = <<>>
    /\ qi' = 0
    /\ qvals' = NoValues
    /\ qpath' = NoPath
    /\ UNCHANGED <<handleVars, clientVars>>

(***************************************************************************)
(* A client: NewClient, then two callers using what it returned            *)
(***************************************************************************)
Threads == {"t1", "t2"}
ServerAddrs == {"http://tableau.test", ":bad"}
SiteNames == {"", "mysite"}
ProjectIDs == {"p1", "%zz"}

SignInOK == JObj([credentials |-> JObj([token |-> JStr("tok"), site |-> JObj([id |-> JStr("s1")])])])
ClientBodies ==
    { BadBody(""), JNull, JObj([x \in {} |-> JNull]),
      SignInOK,
      JObj([credentials |-> JObj([token |-> JStr("tok2")])]),
      JObj([credentials |-> JObj([token |-> JStr("tok"), site |-> JNum])]),
      JObj([project |-> JObj([id |-> JStr("p1"), name |-> JStr("n")])]),
      JObj([projects |-> JObj([project |-> JArr(<<JObj([id |-> JStr("p1")])>>)])]),
      JObj([dataSource |-> JObj([id |-> JStr("d1")])]),
      JObj([error |-> JObj([summary |-> JStr("a"), detail |-> JStr("b"), code |-> JStr("404")])]) }
ClientStatuses == {200, 204, 404}
Outcomes ==
    {RoundTripFails} \cup {Responds(r) : r \in [StatusCode : ClientStatuses, Body : ClientBodies]}

Calls ==
    {[op |-> "Projects.Query", arg |-> [opts |-> o]] :
        o \in {<<>>, <<[with |-> "WithPageSize", arg |-> 25]>>}}
    \cup {[op |-> "Projects.Create", arg |-> [Name |-> "n", Description |-> ""]]}
    \cup {[op |-> "Projects.Update", arg |-> [ID |-> i, Name |-> "n", Description |-> "d"]] :
            i \in ProjectIDs}
    \cup {[op |-> "Projects.Delete", arg |-> [ID |-> i]] : i \in ProjectIDs}
    \cup {[op |-> o, arg |-> [ID |-> "d1"]] : o \in {"DataSources.Get", "DataSources.Delete"}}
NoCall == [op |-> "", arg |-> [none |-> TRUE]]

InitClient ==
    /\ phase = "start"
    /\ c = NoClient
    /\ nerr = NoErr
    /\ sreq = NoRequest
    /\ sres = RoundTripFails
    /\ tpc = [t \in Threads |-> "idle"]
    /\ tcall = [t \in Threads |-> NoCall]
    /\ treq = [t \in Threads |-> NoRequest]
    /\ tret = [t \in Threads |-> NoResult]

\* NewClient up to the sign-in round trip: url.Parse of the base URL, the
\* Client struct, the sign-in request
NewClientCall ==
    /\ phase = "start"
    /\ \E serverAddr \in ServerAddrs, siteName \in SiteNames :
        IF serverAddr \in BadText
        THEN /\ phase' = "failed"
             /\ nerr' = UrlError
             /\ UNCHANGED <<c, sreq>>
        ELSE LET cl == [UserAgent |-> userAgent, headers |-> NoHeaders,
                        baseURL |-> <<serverAddr, "/api/3.4/">>, SiteID |-> ""]
                 r == signInBuild(cl, "name", "secret", siteName)
             IN  /\ c' = r.c
                 /\ sreq' = r.req
                 /\ nerr' = r.err
                 /\ phase' = IF r.err # NoErr THEN "failed" ELSE "signin"
    /\ UNCHANGED <<sres, tpc, tcall, treq, tret, handleVars, queryVars>>

\* the sign-in round trip and the rest of signIn and NewClient
SignInResponse ==
    /\ phase = "signin"
    /\ \E outcome \in Outcomes :
        LET r == signInFinish(c, outcome) IN
        /\ sres' = outcome
        /\ c' = r.c
        /\ nerr' = r.err
        /\ phase' = IF r.err # NoErr THEN "failed" ELSE "ready"
    /\ UNCHANGED <<sreq, tpc, tcall, treq, tret, handleVars, queryVars>>

\* a caller enters a service method, which builds its request
ServiceBuild(t) ==
    /\ phase = "ready"
    /\ tpc[t] = "idle"
    /\ \E call \in Calls :
        LET a == serviceRequest(c, call)
            r == newRequest(c, a.method, a.path, a.body)
        IN  /\ tcall' = [tcall EXCEPT ![t] = call]
            /\ c' = r.c
            /\ IF r.err # NoErr
               THEN /\ tpc' = [tpc EXCEPT ![t] = "done"]
                    /\ tret' = [tret EXCEPT ![t] =
                            [panic |-> FALSE, err |-> Wrap(r.err, serviceWrapMessage(call.op)),
                             val |-> NilPtr]]
                    /\ UNCHANGED treq
               ELSE /\ tpc' = [tpc EXCEPT ![t] = "built"]
                    /\ treq' = [treq EXCEPT ![t] = r.req]
                    /\ UNCHANGED tret
    /\ UNCHANGED <<phase, nerr, sreq, sres, handleVars, queryVars>>

\* the round trip of the request and the rest of the service method
ServiceDo(t) ==
    /\ phase = "ready"
    /\ tpc[t] = "built"
    /\ \E outcome \in Outcomes :
        tret' = [tret EXCEPT ![t] =
            serviceReturn(tcall[t].op, do(treq[t], serviceTarget(tcall[t].op), outcome))]
    /\ tpc' = [tpc EXCEPT ![t] = "done"]
    /\ UNCHANGED <<phase, c, nerr, sreq, sres, tcall, treq, handleVars, queryVars>>

\* the caller takes the result
ServiceDone(t) ==
    /\ tpc[t] = "done"
    /\ tpc' = [tpc EXCEPT ![t] = "idle"]
    /\ tcall' = [tcall EXCEPT ![t] = NoCall]
    /\ treq' = [treq EXCEPT ![t] = NoRequest]
    /\ tret' = [tret EXCEPT ![t] = NoResult]
    /\ UNCHANGED <<phase, c, nerr, sreq, sres, handleVars, queryVars>>

(***************************************************************************)
(* Specifications                                                          *)
(***************************************************************************)
Init == InitHandle /\ InitClient /\ InitQuery

NextHandle == HandleResponse \/ HandleDone

NextQuery == QueryCall \/ QueryApply \/ QueryEncode \/ QueryDone

Next ==
    \/ NewClientCall
    \/ SignInResponse
    \/ \E t \in Threads : ServiceBuild(t) \/ ServiceDo(t) \/ ServiceDone(t)

\* the client and its callers
Spec == Init /\ [][Next]_vars
\* handleResponse on its own
SpecHandle == Init /\ [][NextHandle]_vars
\* the option loop of Query on its own
SpecQuery == Init /\ [][NextQuery]_vars

(***************************************************************************)
(* What the claims say of a body, read off the JSON value itself and not   *)
(* through Unmarshal                                                       *)
(***************************************************************************)
IsJSON(b) == b.k \notin {"bad", "unreadable"}
NonEmpty(msg) == \E i \in 1..Len(msg) : msg[i] # ""

\* the "error" member of a body, null when there is none
ErrMember(b) == IF b.k = "obj" /\ "error" \in DOMAIN b.o THEN b.o.error ELSE JNull
ErrFields == {"summary", "detail", "code"}
\* the string a body gives for a field of the vendor error, "" when it gives none
FieldOf(b, f) ==
    LET e == ErrMember(b) IN
    IF e.k = "obj" /\ f \in DOMAIN e.o /\ e.o[f].k = "str" THEN e.o[f].s ELSE ""
\* {error: {...}} with at least one of summary, detail, code
VendorShaped(b) ==
    LET e == ErrMember(b) IN e.k = "obj" /\ DOMAIN e.o \cap ErrFields # {}
\* every JSON value stands where the vendor error shape has a place of its type
ErrTypesFit(b) ==
    LET e == ErrMember(b) IN
    /\ b.k \in {"null", "obj"}
    /\ e.k \in {"null", "obj"}
    /\ e.k = "obj" => \A f \in DOMAIN e.o \cap ErrFields : e.o[f].k \in {"str", "null"}

\* the same for a target that is a struct of strings, or a pointer to one
FlatFits(j, t) ==
    \/ j.k = "null"
    \/ j.k = "obj" /\ \A f \in DOMAIN t.f \cap DOMAIN j.o : j.o[f].k \in {"str", "null"}
FlatExpected(j, t, cur) ==
    IF j.k = "null" THEN cur
    ELSE [f \in DOMAIN t.f |->
            IF f \in DOMAIN j.o /\ j.o[f].k = "str" THEN j.o[f].s ELSE cur[f]]
TargetFits(j, v) == IF v.t.k = "ptr" THEN FlatFits(j, v.t.e) ELSE FlatFits(j, v.t)
TargetExpected(j, v) ==
    IF v.t.k = "ptr"
    THEN IF j.k = "null" THEN NilPtr
         ELSE Ptr(FlatExpected(j, v.t.e, IF v.val.isNil THEN Zero(v.t.e) ELSE v.val.p))
    ELSE FlatExpected(j, v.t, v.val)

Returned == hpc = "returned"
BodyRead == hres.Body.k # "unreadable"

(***************************************************************************)
(* Claims about handleResponse, checked under SpecHandle                   *)
(***************************************************************************)

\* C1: a response of status 204 returns nil and leaves the target, nil or
\* not, exactly as it was, whatever the body read from it (empty, JSON or
\* not JSON): nothing is decoded.  (A body whose read fails is no body of
\* any of these kinds: ReadAll's error is returned before the status is looked at.)
C1_NoContentUntouched ==
    (Returned /\ hres.StatusCode = StatusNoContent /\ BodyRead)
        => (hret.err = NoErr /\ hret.v = hv)

\* C1 witness: a 204 with a non-nil target and a body that would decode into it
C1_Witness ==
    /\ Returned /\ hres.StatusCode = StatusNoContent
    /\ hv = Target(T_DeleteProjectRequest, [id |-> "old"])
    /\ hres.Body = JObj([id |-> JStr("test")])
    /\ hret.err = NoErr

InternalMismatchError(res) ==
    Error(<<"internal error, response body doesn't match error type signature">>,
          "-1", [body |-> res.Body, http_status |-> StatusText(res.StatusCode)])

C4_MalformedErrorBody ==
    (Returned /\ hres.StatusCode >= StatusBadRequest /\ hres.Body.k = "bad")
        => /\ hret.err.kind = "Error"
           /\ hret.err.msg = <<"malformed error response body received">>
           /\ hret.err.Code = "-1"
           /\ DOMAIN hret.err.Meta = {"body", "err", "http_status"}
           /\ hret.err.Meta.body = hres.Body
           /\ hret.err.Meta.err \in {"unexpected end of JSON input",
                    "invalid character '<' looking for beginning of value"}
           /\ hret.err.Meta.http_status = StatusText(hres.StatusCode)

\* C4 witness: a 500 with an empty body
C4_Witness ==
    /\ Returned /\ hres.StatusCode = 500
    /\ hres.Body = BadBody("")
    /\ hret.err.kind = "Error"
    /\ hret.err.Meta.err = "unexpected end of JSON input"

\* C5: every status >= 400 returns an error, never nil, with the target
\* (nil or not) as it was; a body that decodes to a vendor error with a
\* non-empty field gives the message summary + ": " + detail and the vendor's code.
C5_ErrorBranchFirst ==
    (Returned /\ hres.StatusCode >= StatusBadRequest)
        => /\ hret.err # NoErr
           /\ hret.v = hv
           /\ (/\ IsJSON(hres.Body) /\ ErrTypesFit(hres.Body)
               /\ \E f \in ErrFields : FieldOf(hres.Body, f) # "")
                => /\ hret.err.kind = "Error"
                   /\ hret.err.msg =
                        <<FieldOf(hres.Body, "summary"), ": ", FieldOf(hres.Body, "detail")>>
                   /\ hret.err.Code = FieldOf(hres.Body, "code")

\* C5 witness: a 400 with a full vendor error and a non-nil target
C5_Witness ==
    /\ Returned /\ hres.StatusCode = 400
    /\ ~hv.isNil
    /\ hres.Body = JObj([error |->
            JObj([summary |-> JStr("a"), detail |-> JStr("a"), code |-> JStr("a")])])
    /\ hret.err.kind = "Error"
    /\ hret.err.Code = "a"

\* C6: every error handleResponse returns is the typed error with a
\* non-empty message and a non-empty code.
C6_EveryFailureTyped ==
    (Returned /\ hret.err # NoErr)
        => /\ hret.err.kind = "Error"
           /\ NonEmpty(hret.err.msg)
           /\ hret.err.Code # ""

(***************************************************************************)
(* Claims about the client, checked under Spec                             *)
(***************************************************************************)
Built(t) == treq[t] # NoRequest
\* member f of JSON value j, null when j is no object or has no f
Member(j, f) == IF j.k = "obj" /\ f \in DOMAIN j.o THEN j.o[f] ELSE JNull
StrOf(j) == IF j.k = "str" THEN j.s ELSE ""
Credentials(outcome) == Member(outcome.res.Body, "credentials")
\* the token and the site id a sign-in response carries; a 204 carries none
TokenIn(outcome) ==
    IF outcome.res.StatusCode = 204 THEN ""
    ELSE StrOf(Member(Credentials(outcome), "token"))
SiteIn(outcome) ==
    IF outcome.res.StatusCode = 204 THEN ""
    ELSE StrOf(Member(Member(Credentials(outcome), "site"), "id"))
\* the sign-in round trip gave a response below 400 that is a 204 or whose
\* body is JSON with the types of signInResponse
SignInSucceeds(outcome) ==
    /\ ~outcome.fail
    /\ outcome.res.StatusCode < 400
    /\ \/ outcome.res.StatusCode = 204
       \/ LET b == outcome.res.Body
              cr == Credentials(outcome)
              st == Member(cr, "site")
          IN  /\ b.k \in {"null", "obj"}
              /\ cr.k \in {"null", "obj"}
              /\ st.k \in {"null", "obj"}
              /\ \A f \in {"token", "estimatedTimeToExpiration"} :
                    Member(cr, f).k \in {"null", "str"}
              /\ \A f \in {"id", "contentUrl"} : Member(st, f).k \in {"null", "str"}

\* C7: every request newRequest builds, the sign-in request and those built
\* after it, GET or not, carries User-Agent "go-tableau/v0.0.1"; the session
\* headers injected afterwards do not replace it.
C7_UserAgentAlways ==
    /\ sreq # NoRequest =>
        /\ "User-Agent" \in DOMAIN sreq.Header
        /\ sreq.Header["User-Agent"] = "go-tableau/v0.0.1"
    /\ \A t \in Threads : Built(t) =>
        /\ "User-Agent" \in DOMAIN treq[t].Header
        /\ treq[t].Header["User-Agent"] = "go-tableau/v0.0.1"

\* C7 witness: a GET and a DELETE built through a signed-in client, both
\* carrying the session header too
C7_Witness ==
    /\ Built("t1") /\ treq["t1"].Method = "GET"
    /\ Built("t2") /\ treq["t2"].Method = "DELETE"
    /\ "X-Tableau-Auth" \in DOMAIN treq["t1"].Header
    /\ treq["t1"].Header["User-Agent"] = "go-tableau/v0.0.1"
    /\ treq["t2"].Header["User-Agent"] = "go-tableau/v0.0.1"

\* C8: a client is returned only after sign-in succeeded; every request
\* built through it carries X-Tableau-Auth equal to the token of the sign-in
\* response and a path under the site id of that response; the sign-in
\* request carries no auth header; a failed sign-in returns the error and
\* no client, so nothing is built.
C8_SignInBeforeUse ==
    /\ sreq # NoRequest => "X-Tableau-Auth" \notin DOMAIN sreq.Header
    /\ phase = "ready" => (nerr = NoErr /\ SignInSucceeds(sres))
    /\ (phase = "failed" /\ sreq # NoRequest) => ~SignInSucceeds(sres)
    /\ phase = "failed" => nerr # NoErr
    /\ \A t \in Threads :
        /\ tpc[t] # "idle" => phase = "ready"
        /\ Built(t) =>
            /\ "X-Tableau-Auth" \in DOMAIN treq[t].Header
            /\ treq[t].Header["X-Tableau-Auth"] = TokenIn(sres)
            /\ treq[t].URL[2].parts[1] = "sites/"
            /\ treq[t].URL[2].parts[2] = SiteIn(sres)

\* C8 witness: a request built after a sign-in that gave token "tok" and site "s1"
C8_Witness ==
    /\ phase = "ready"
    /\ sres = Responds([StatusCode |-> 200, Body |-> SignInOK])
    /\ Built("t1")
    /\ treq["t1"].Header["X-Tableau-Auth"] = "tok"
    /\ treq["t1"].URL[2].parts[2] = "s1"

\* C10: the session (c.headers, c.SiteID) changes only in the step in which
\* signIn succeeds and NewClient returns the client; before that step, and
\* after a failed sign-in, it is empty; after it no step of any caller,
\* whatever the interleaving and whether the call fails, changes it.
C10_SessionWrittenBySignInOnly ==
    /\ [](phase = "ready" => DOMAIN c.headers = {"X-Tableau-Auth"})
    /\ [](phase # "ready" => (c.headers = NoHeaders /\ c.SiteID = ""))
    /\ [][(c'.headers # c.headers \/ c'.SiteID # c.SiteID)
            => (phase = "signin" /\ phase' = "ready")]_vars
    /\ [][phase = "ready" => (c' = c /\ phase' = "ready")]_vars

\* C10 witness: one caller's call has failed, the other has a request in
\* flight, and the session is the one sign-in stored
C10_Witness ==
    /\ phase = "ready"
    /\ tpc["t1"] = "done" /\ tret["t1"].err # NoErr
    /\ tpc["t2"] = "built"
    /\ c.headers = [x \in {"X-Tableau-Auth"} |-> "tok"]
    /\ c.SiteID = "s1"

(***************************************************************************)
(* Claims about the query options, checked under SpecQuery                 *)
(***************************************************************************)
ParamOf(opt) ==
    CASE opt.with = "WithPageSize" -> "pageSize"
      [] opt.with = "WithPageNumber" -> "pageNumber"
      [] opt.with = "WithFilterExpression" -> "filter"
      [] opt.with = "WithSortExpression" -> "sort"
IsIntOption(opt) == opt.with \in {"WithPageSize", "WithPageNumber"}
\* the text of an option's value, written out for the values used
TextOf(opt) ==
    IF IsIntOption(opt)
    THEN CASE opt.arg = -1 -> <<"-", "1">>
           [] opt.arg = 0 -> <<"0">>
           [] opt.arg = 1 -> <<"1">>
           [] opt.arg = 25 -> <<"2", "5">>
    ELSE opt.arg
\* an option with a value other than the default (0 or the empty string)
NonDefault(opt) == IF IsIntOption(opt) THEN opt.arg # 0 ELSE opt.arg # ""
\* an option with a positive number or a non-empty string
Positive(opt) == IF IsIntOption(opt) THEN opt.arg > 0 ELSE opt.arg # ""
\* the options that set their parameter, as the claim reads ("nondefault")
\* and as amended ("positive")
Sets(opt, reading) == IF reading = "nondefault" THEN NonDefault(opt) ELSE Positive(opt)
\* the values after `applied`, if exactly the options that Sets names set
\* their own parameter: each parameter holds the value of the last of them
ValuesIf(applied, reading) ==
    LET last(p) == {i \in 1..Len(applied) :
                        /\ ParamOf(applied[i]) = p /\ Sets(applied[i], reading)
                        /\ \A j \in (i + 1)..Len(applied) :
                              ~(ParamOf(applied[j]) = p /\ Sets(applied[j], reading))}
        set == {p \in {"pageSize", "pageNumber", "filter", "sort"} : last(p) # {}}
    IN  [p \in set |-> <<TextOf(applied[CHOOSE i \in last(p) : TRUE])>>]
Applied == SubSeq(qopts, 1, qi)
DistinctParams(opts) ==
    \A i, j \in 1..Len(opts) : i # j => ParamOf(opts[i]) # ParamOf(opts[j])
Reorderings(n) == {f \in [1..n -> 1..n] : \A i, j \in 1..n : i # j => f[i] # f[j]}

\* C9 as stated: no sequence of options fails; an option with value 0 or ""
\* leaves the values as they are and every other option sets exactly its own
\* parameter; options for distinct parameters give the same values in any order.
C9_Original ==
    /\ qpc # "panic"
    /\ qpc \in {"loop", "encoded"} => qvals = ValuesIf(Applied, "nondefault")
    /\ (qpc = "encoded" /\ DistinctParams(qopts)) =>
        \A f \in Reorderings(Len(qopts)) :
            ApplyOptions([i \in 1..Len(qopts) |-> qopts[f[i]]], NoValues).vals = qvals

\* C9 amended: no sequence of options fails; an option with a number that
\* is not positive (0 or negative) or with "" leaves the values as they are
\* and an option with a positive number or a non-empty string sets exactly
\* its own parameter; options for distinct parameters give the same values
\* in any order.
C9_OptionsCompose ==
    /\ qpc # "panic"
    /\ qpc \in {"loop", "encoded"} => qvals = ValuesIf(Applied, "positive")
    /\ (qpc = "encoded" /\ DistinctParams(qopts)) =>
        \A f \in Reorderings(Len(qopts)) :
            ApplyOptions([i \in 1..Len(qopts) |-> qopts[f[i]]], NoValues).vals = qvals

\* C9 witness: WithPageSize(0), WithPageSize(25), WithFilterExpression("a")
\* applied: pageSize=25 and filter=a, nothing else
C9_Witness ==
    /\ qpc = "encoded"
    /\ qopts = <<[with |-> "WithPageSize", arg |-> 0], [with |-> "WithPageSize", arg |-> 25],
                 [with |-> "WithFilterExpression", arg |-> "a"]>>
    /\ DOMAIN qvals = {"pageSize", "filter"}
    /\ qvals["pageSize"] = <<(<<"2", "5">>)>>
    /\ qvals["filter"] = <<"a">>
    /\ Len(qpath.query) = 2

====
